---- MODULE Spec2Model ----
(***************************************************************************)
(* The p2p peer of src/p2p/peer.go as a state machine: one peer, its       *)
(* transport connection, the read loop goroutine, Send/TrySend callers,    *)
(* the metrics reporter goroutine and the service lifecycle.               *)
(*                                                                         *)
(* Threads are modelled by a position (pc) each; one action is one step of *)
(* one thread between two accesses of shared state.  State after           *)
(* newPeer/wrapPeer has returned is Init.                                  *)
(***************************************************************************)
EXTENDS Integers, Sequences, FiniteSets, TLC

\* ------------------------------------------------------------------ bounds
\* Longest encoded message, in bytes.
MaxMsgLen == 2
\* Total encoded bytes accepted for sending over one run.
MaxSendBytes == 2
\* Total bytes the remote side pushes onto the connection over one run.
MaxRecvBytes == 2
\* Largest consensus block time, largest block height, latest genesis time
\* and latest block timestamp handed to CalculateDelay (times in
\* nanoseconds since the zero time.Time).
MaxBlockTime == 20
MaxHeight == 3
MaxGenesisTime == 2
MaxTime == 40

\* ------------------------------------------------------- fixed configuration
\* Concrete message types (what getMsgType returns).
MsgTypes == {"A", "B"}
\* Goroutines calling Send/TrySend.
Senders == {1, 2}
\* Stream IDs callers pass to Send/TrySend.
Streams == {1, 3}
\* nodeInfo.Channels, cached in peer.channels by newPeer.
channels == <<2, 1>>
\* The dispatch table handed to newPeer: stream 3 is registered but is not
\* among the channels the remote node reported.
reactorsByStreamID == (1 :> "reactor1") @@ (3 :> "reactor3")

VARIABLES
    lifecycle,        \* BaseService: "Created", "Running", "Stopping", "Stopped"
    quit,             \* BaseService quit channel is closed
    stopper,          \* the Stop call in progress: who runs it and where it is
    connClosed,       \* transport connection is closed
    closes,           \* closing calls made on the transport, by kind
    writeDeadline,    \* transport write deadline: its duration and who set it
    inbox,            \* per stream, messages the transport holds for reading
    pendingMetrics,   \* peerPendingMetricsCache.perMessageCache
    mtx,              \* peerPendingMetricsCache.mtx: "free" or its holder
    metrics,          \* cumulative counters of p.metrics
    sd,               \* per sender goroutine: position in Send/TrySend
    rl,               \* the read loop goroutine
    rep,              \* the metrics reporter goroutine
    onPeerErrorCalls, \* invocations of the onPeerError callback
    sentTotal,        \* history: encoded bytes of sends that returned true
    recvTotal,        \* history: bytes of reads recorded as received
    delivered,        \* history: Envelopes handed to reactors, in order
    late,             \* history: records and deliveries made in state Stopped
    errIn,            \* history: lifecycle state in which a read last failed
    readLog,          \* history: messages the read loop read and decoded, in order
    handlers,         \* reactor.Receive calls in progress
    peerConn,         \* peerConn.outbound, peerConn.persistent
    cfg,              \* what wrapPeer was called with
    removalAttemptFailed, \* peer.removalAttemptFailed
    Data,             \* peer.Data (cmap.CMap)
    got,              \* what Get and GetRemovalFailed last returned to the owner
    delay             \* the last CalculateDelay call: its inputs and its result

vars == <<lifecycle, quit, stopper, connClosed, closes, writeDeadline, inbox,
          pendingMetrics, mtx, metrics, sd, rl, rep, onPeerErrorCalls,
          sentTotal, recvTotal, delivered, late, errIn, readLog,
          handlers, peerConn, cfg, removalAttemptFailed, Data, got, delay>>

lifeVars == <<lifecycle, quit, stopper>>
connVars == <<connClosed, closes>>
cacheVars == <<pendingMetrics, mtx, metrics>>
histVars == <<sentTotal, recvTotal, delivered, late, errIn, readLog>>
\* What the owner of the peer (the switch, the peer set, the reactors) works
\* with, and the state package's delay calculation.
ownerVars == <<peerConn, cfg, removalAttemptFailed, Data, got, delay>>

\* ----------------------------------------------------------------- helpers
RECURSIVE SumOver(_, _)
SumOver(f, S) ==
    IF S = {} THEN 0
    ELSE LET x == CHOOSE y \in S : TRUE IN f[x] + SumOver(f, S \ {x})

RECURSIVE SeqSum(_)
SeqSum(q) == IF q = <<>> THEN 0 ELSE Head(q).n + SeqSum(Tail(q))

\* service.BaseService.IsRunning
IsRunning == lifecycle = "Running"

\* peer.HasChannel: linear scan over the cached channel list.
RECURSIVE ScanChannels(_, _)
ScanChannels(chs, chID) ==
    IF chs = <<>> THEN FALSE
    ELSE IF Head(chs) = chID THEN TRUE
    ELSE ScanChannels(Tail(chs), chID)

\* The stream is also looked up in the dispatch table.
HasChannelAny(chID) == chID \in DOMAIN reactorsByStreamID \/ ScanChannels(channels, chID)
HasChannel(chID) == ScanChannels(channels, chID)

\* Messages a caller passes to Send/TrySend: type, encoded length and whether
\* proto.Marshal succeeds.
OutMsgs ==
    [mt : MsgTypes, len : 1..MaxMsgLen, enc : {TRUE}]
        \cup {[mt |-> "A", len |-> 1, enc |-> FALSE]}

\* Byte strings the remote side can push: a message of a type with its
\* length, or bytes that do not decode into the stream's prototype.
InMsgs == [mt : MsgTypes, n : 1..MaxMsgLen, ok : {TRUE}]
BadMsg == [mt |-> "A", n |-> 1, ok |-> FALSE]

\* A sender goroutine.  streamID, mt, len: the arguments of the call and the
\* length of the encoded message; n: the byte count the write returned.
\* History of the call, kept until the caller has its result: run (the peer
\* was Running when the call checked), enc (the message can be marshalled),
\* out (what the transport write reported), wr (transport writes made),
\* added (bytes the call added to the cache), res (the result).
IdleSd == [pc |-> "idle", streamID |-> 0, mt |-> "-", len |-> 0, n |-> 0,
           run |-> FALSE, enc |-> TRUE, out |-> "-", res |-> FALSE, wr |-> 0,
           added |-> 0]

InFlight(s) == IF sd[s].pc \in {"write", "add"} THEN sd[s].len ELSE 0
SendBytesUsed ==
    SumOver(sentTotal, MsgTypes) + SumOver([s \in Senders |-> InFlight(s)], Senders)

RecvBytesUsed ==
    SumOver(recvTotal, MsgTypes)
        + SumOver([s \in DOMAIN inbox |-> SeqSum(inbox[s])], DOMAIN inbox)
        + (IF rl.pc = "record" THEN rl.msg.n ELSE 0)

\* The process is alive (no goroutine has panicked).
Alive == rl.pc # "panicked"

\* ------------------------------------------------------------------ wrapPeer
\* Network addresses.
Addrs == {"a1", "a2"}

\* What wrapPeer is called with: cfg.outbound; cfg.isPersistent, nil or a
\* predicate, given by the set of addresses it holds persistent; socketAddr;
\* and what ni.NetAddr() returns, an address or an error.
Configs ==
    {c \in [outbound : BOOLEAN,
            isPersistent : [set : BOOLEAN, yes : SUBSET Addrs],
            socketAddr : Addrs,
            netAddr : [err : BOOLEAN, addr : Addrs]] :
        ~c.isPersistent.set => c.isPersistent.yes = {}}

\* An outbound peer dialed at a persistent address.
DialCfg == [outbound |-> TRUE, isPersistent |-> [set |-> TRUE, yes |-> {"a1"}],
            socketAddr |-> "a1", netAddr |-> [err |-> FALSE, addr |-> "a1"]]

newPeerConn(outbound, persistent) == [outbound |-> outbound, persistent |-> persistent]

\* The predicate is applied to the socket address whatever the direction.
PersistentBySocket(c) ==
    IF c.isPersistent.set THEN c.socketAddr \in c.isPersistent.yes ELSE FALSE

\* wrapPeer: the value of `persistent` handed to newPeerConn.
Persistent(c) ==
    IF c.isPersistent.set
    THEN IF c.outbound
         THEN c.socketAddr \in c.isPersistent.yes
         ELSE IF ~c.netAddr.err
              THEN c.netAddr.addr \in c.isPersistent.yes
              ELSE FALSE
    ELSE FALSE

wrapPeer(c) == newPeerConn(c.outbound, Persistent(c))

IsOutbound == peerConn.outbound
IsPersistent == peerConn.persistent

\* ------------------------------------------------------------- peer.Data
Keys == {"k"}
Values == {"v1", "v2"}

\* ------------------------------------------------------- CalculateDelay
NoDelay == [called |-> FALSE]

MsgProcDelayRatio == 10
DeflectionRatio == 5

\* What a call works on: whether store.Load and store.LoadConsensusParams
\* fail, consensusParams.Block.BlockTime, state.GenesisTime, and the current
\* block's Height and Time.  All far inside the int64 range: no product
\* overflows and Time.Sub does not saturate.
DelayInputs ==
    [loadErr : BOOLEAN, paramsErr : BOOLEAN, blockTime : 0..MaxBlockTime,
     genesisTime : 0..MaxGenesisTime, height : 1..MaxHeight, time : 0..MaxTime]

\* Go's integer division truncates toward zero.
Quo(a, b) == IF a >= 0 THEN a \div b ELSE -((-a) \div b)

\* time.Duration.Abs
Abs(d) == IF d < 0 THEN -d ELSE d

\* time.Time.IsZero: the instant is the zero time.
IsZero(t) == t = 0

\* The two clamped results are exchanged.
CalculateDelayClampSwapped(in) ==
    IF in.loadErr THEN 0
    ELSE IF in.paramsErr THEN 0
    ELSE
      LET blockTime == in.blockTime
          msgProcDelay == Quo(blockTime, MsgProcDelayRatio)
          idealNextBlockDelay == blockTime - msgProcDelay
          genesisTime == in.genesisTime
      IN IF IsZero(genesisTime) THEN 0
         ELSE
           LET gotDuration == in.time - genesisTime
               expected == blockTime * (in.height - 1)
               diff == gotDuration - expected
               threshold == Quo(idealNextBlockDelay, DeflectionRatio)
           IN IF Abs(diff) > threshold
              THEN IF diff > 0
                   THEN idealNextBlockDelay + threshold
                   ELSE idealNextBlockDelay - threshold
              ELSE idealNextBlockDelay - diff

CalculateDelay(in) ==
    IF in.loadErr THEN 0
    ELSE IF in.paramsErr THEN 0
    ELSE
      LET blockTime == in.blockTime
          msgProcDelay == Quo(blockTime, MsgProcDelayRatio)
          idealNextBlockDelay == blockTime - msgProcDelay
          genesisTime == in.genesisTime
      IN IF IsZero(genesisTime) THEN 0
         ELSE
           LET gotDuration == in.time - genesisTime
               expected == blockTime * (in.height - 1)
               diff == gotDuration - expected
               threshold == Quo(idealNextBlockDelay, DeflectionRatio)
           IN IF Abs(diff) > threshold
              THEN IF diff > 0
                   THEN idealNextBlockDelay - threshold
                   ELSE idealNextBlockDelay + threshold
              ELSE idealNextBlockDelay - diff

\* -------------------------------------------------------------------- Init
NoMsg == [mt |-> "-", n |-> 0]

\* The peer in lifecycle state lc with the reporter at rp: everything else
\* as newPeer leaves it (the read loop is launched by newPeer and is at the
\* top of its loop).
PeerState(lc, rp, ib) ==
    /\ lifecycle = lc
    /\ quit = FALSE
    /\ stopper = [by |-> "none", pc |-> "idle"]
    /\ connClosed = FALSE
    /\ closes = [Close |-> 0, FlushAndClose |-> 0]
    /\ writeDeadline = [dur |-> "none", by |-> 0]
    /\ inbox = ib
    /\ pendingMetrics = [t \in MsgTypes |-> [pendingSendBytes |-> 0, pendingRecvBytes |-> 0]]
    /\ mtx = "free"
    /\ metrics = [MessageSendBytesTotal |-> [t \in MsgTypes |-> 0],
                  MessageReceiveBytesTotal |-> [t \in MsgTypes |-> 0]]
    /\ sd = [s \in Senders |-> IdleSd]
    /\ rl = [pc |-> "top", cur |-> 0, todo |-> {}, msg |-> NoMsg, exit |-> "-"]
    /\ rep = [pc |-> rp, cur |-> "-", todo |-> {}]
    /\ onPeerErrorCalls = 0
    /\ sentTotal = [t \in MsgTypes |-> 0]
    /\ recvTotal = [t \in MsgTypes |-> 0]
    /\ delivered = <<>>
    /\ late = [recorded |-> 0, delivered |-> 0]
    /\ errIn = "-"
    /\ readLog = <<>>
    /\ handlers = 0
    /\ removalAttemptFailed = FALSE
    /\ Data = [k \in Keys |-> "nil"]
    /\ got = [Get |-> "nil", GetRemovalFailed |-> FALSE]
    /\ delay = NoDelay

\* The state newPeer returns: Created.
EmptyInbox == [s \in DOMAIN reactorsByStreamID |-> <<>>]

\* The peer was made by wrapPeer from configuration c.
Wrapped(c) == cfg = c /\ peerConn = wrapPeer(c)

Init == PeerState("Created", "off", EmptyInbox) /\ Wrapped(DialCfg)

\* A state right after Start: Running, the reporter launched, the read loop
\* not yet scheduled, and one message from the remote side waiting on a stream.
InitRunning ==
    \E streamID \in DOMAIN reactorsByStreamID, m \in InMsgs :
        /\ m.n <= MaxRecvBytes
        /\ PeerState("Running", "wait", [EmptyInbox EXCEPT ![streamID] = <<m>>])
        /\ Wrapped(DialCfg)

\* ------------------------------------------------------- service lifecycle
\* BaseService.Start: Created -> Running, then peer.OnStart launches the
\* metrics reporter.  A Start in any other state returns an error and
\* changes nothing.
Start ==
    /\ Alive
    /\ lifecycle = "Created"
    /\ lifecycle' = "Running"
    /\ rep' = [rep EXCEPT !.pc = "wait"]
    /\ UNCHANGED <<quit, stopper, connVars, writeDeadline, inbox, cacheVars, sd, rl,
                   onPeerErrorCalls, ownerVars, handlers, histVars>>

\* BaseService.Stop, first step: the compare-and-swap of the stopped flag.
\* It succeeds on a Running service only; from then on IsRunning is false.
StopBegin(who) ==
    /\ lifecycle = "Running"
    /\ lifecycle' = "Stopping"
    /\ stopper' = [by |-> who, pc |-> "onstop"]

\* Stop called by the owner of the peer (the switch).
Stop ==
    /\ Alive
    /\ StopBegin("ext")
    /\ UNCHANGED <<quit, connVars, writeDeadline, inbox, cacheVars, sd, rl, rep,
                   onPeerErrorCalls, ownerVars, handlers, histVars>>

\* OnStop returns without closing the connection.
OnStopNoClose ==
    /\ Alive
    /\ stopper.pc = "onstop"
    /\ stopper' = [stopper EXCEPT !.pc = "closequit"]
    /\ UNCHANGED <<lifecycle, quit, connVars, writeDeadline, inbox, cacheVars, sd, rl, rep,
                   onPeerErrorCalls, ownerVars, handlers, histVars>>

\* peer.OnStop, run inside Stop: close the transport connection.
OnStop ==
    /\ Alive
    /\ stopper.pc = "onstop"
    /\ connClosed' = TRUE
    /\ closes' = [closes EXCEPT !.Close = @ + 1]
    /\ stopper' = [stopper EXCEPT !.pc = "closequit"]
    /\ UNCHANGED <<lifecycle, quit, writeDeadline, inbox, cacheVars, sd, rl, rep,
                   onPeerErrorCalls, ownerVars, handlers, histVars>>

\* BaseService.Stop, last step: close(quit) and return to the caller.  When
\* the read loop is the caller, its `return` follows.
StopEnd ==
    /\ Alive
    /\ stopper.pc = "closequit"
    /\ quit' = TRUE
    /\ lifecycle' = "Stopped"
    /\ stopper' = [stopper EXCEPT !.pc = "done"]
    /\ rl' = IF stopper.by = "rl" THEN [rl EXCEPT !.pc = "exited"] ELSE rl
    /\ UNCHANGED <<connVars, writeDeadline, inbox, cacheVars, sd, rep,
                   onPeerErrorCalls, ownerVars, handlers, histVars>>

\* peer.FlushStop: only the transport is told to flush and close; it is
\* called at most once.
FlushStop ==
    /\ Alive
    /\ closes.FlushAndClose = 0
    /\ connClosed' = TRUE
    /\ closes' = [closes EXCEPT !.FlushAndClose = 1]
    /\ UNCHANGED <<lifeVars, writeDeadline, inbox, cacheVars, sd, rl, rep,
                   onPeerErrorCalls, ownerVars, handlers, histVars>>

\* ------------------------------------------------------------ Send/TrySend
\* peerPendingMetricsCache.AddPendingSendBytes, under the cache mutex.
AddPendingSendBytes(msgType, n) ==
    [pendingMetrics EXCEPT ![msgType].pendingSendBytes = @ + n]

\* peerPendingMetricsCache.AddPendingRecvBytes, under the cache mutex.
AddPendingRecvBytes(msgType, n) ==
    [pendingMetrics EXCEPT ![msgType].pendingRecvBytes = @ + n]

\* peer.send up to the transport write: the early returns.
SendCheck(streamID, m) ==
    IF ~IsRunning THEN "notrunning"
    ELSE IF ~HasChannel(streamID) THEN "nochannel"
    ELSE IF ~m.enc THEN "encode"
    ELSE "pass"

\* `return res` of peer.send.
Returned(r, res) ==
    [r EXCEPT !.pc = "ret", !.mt = "-", !.len = 0, !.n = 0, !.res = res]

\* peer.Send / peer.TrySend: set the write deadline on the connection, then
\* peer.send: IsRunning, HasChannel, proto.Marshal.  (The deadline is set
\* on the transport and IsRunning reads the service flags; no other
\* goroutine's step between the two changes what either does, so they are
\* one step.)
SendCall(s, dur, streamID, m) ==
    /\ Alive
    /\ sd[s].pc = "idle"
    /\ writeDeadline' = [dur |-> dur, by |-> s]
    /\ LET r == [IdleSd EXCEPT !.streamID = streamID, !.mt = m.mt, !.len = m.len,
                               !.run = IsRunning, !.enc = m.enc] IN
         IF SendCheck(streamID, m) = "pass"
         THEN /\ SendBytesUsed + m.len <= MaxSendBytes
              /\ sd' = [sd EXCEPT ![s] = [r EXCEPT !.pc = "write"]]
         ELSE sd' = [sd EXCEPT ![s] = Returned(r, FALSE)]
    /\ UNCHANGED <<lifeVars, connVars, inbox, cacheVars, rl, rep, onPeerErrorCalls, ownerVars, handlers, histVars>>

\* A write that came back short is taken for a complete one.
AfterWriteShortOk(r, n, err) ==
    IF err THEN Returned(r, FALSE)
    ELSE [r EXCEPT !.pc = "add", !.n = n]

\* peer.send after sendFunc returned (n, err).
AfterWrite(r, n, err) ==
    IF err THEN Returned(r, FALSE)
    ELSE IF n # r.len THEN Returned(r, FALSE)
    ELSE [r EXCEPT !.pc = "add", !.n = n]

\* sendFunc = p.conn.Write: the transport writes all, part or nothing of the
\* bytes, or fails (deadline exceeded, broken or closed connection).
SendWrite(s) ==
    /\ Alive
    /\ sd[s].pc = "write"
    /\ \E err \in BOOLEAN, n \in 0..sd[s].len :
          /\ connClosed => err
          /\ err => n = 0
          /\ LET out == IF err THEN "err" ELSE IF n < sd[s].len THEN "short" ELSE "full"
                 r == [sd[s] EXCEPT !.wr = @ + 1, !.out = out]
             IN sd' = [sd EXCEPT ![s] = AfterWrite(r, n, err)]
    /\ UNCHANGED <<lifeVars, connVars, writeDeadline, inbox, cacheVars, rl, rep,
                   onPeerErrorCalls, ownerVars, handlers, histVars>>

\* p.pendingMetrics.AddPendingSendBytes(msgType, n); return true.
SendAdd(s) ==
    /\ Alive
    /\ sd[s].pc = "add"
    /\ mtx = "free"
    /\ pendingMetrics' = AddPendingSendBytes(sd[s].mt, sd[s].n)
    /\ sentTotal' = [sentTotal EXCEPT ![sd[s].mt] = @ + sd[s].len]
    /\ sd' = [sd EXCEPT ![s] = Returned([sd[s] EXCEPT !.added = sd[s].n], TRUE)]
    /\ UNCHANGED <<lifeVars, connVars, writeDeadline, inbox, mtx, metrics, rl, rep,
                   onPeerErrorCalls, ownerVars, handlers, recvTotal, delivered, late, errIn, readLog>>

\* The caller has its result; the goroutine is free for the next call.
SendReturn(s) ==
    /\ Alive
    /\ sd[s].pc = "ret"
    /\ sd' = [sd EXCEPT ![s] = IdleSd]
    /\ UNCHANGED <<lifeVars, connVars, writeDeadline, inbox, cacheVars, rl, rep,
                   onPeerErrorCalls, ownerVars, handlers, histVars>>

SendNext ==
    \/ \E s \in Senders, dur \in {"10s", "100ms"}, streamID \in Streams, m \in OutMsgs :
          SendCall(s, dur, streamID, m)
    \/ \E s \in Senders : SendWrite(s)
    \/ \E s \in Senders : SendAdd(s)
    \/ \E s \in Senders : SendReturn(s)

LifeNext == Start \/ Stop \/ OnStop \/ StopEnd \/ FlushStop

\* --------------------------------------------------- the owner's other calls
\* The flag is flipped instead of set.
ToggleRemovalFailed ==
    /\ removalAttemptFailed' = ~removalAttemptFailed
    /\ UNCHANGED <<lifeVars, connVars, writeDeadline, inbox, cacheVars, sd, rl, rep,
                   onPeerErrorCalls, handlers, histVars, peerConn, cfg, Data, got, delay>>

\* peer.SetRemovalFailed: a plain store to the flag.
SetRemovalFailed ==
    /\ removalAttemptFailed' = TRUE
    /\ UNCHANGED <<lifeVars, connVars, writeDeadline, inbox, cacheVars, sd, rl, rep,
                   onPeerErrorCalls, handlers, histVars, peerConn, cfg, Data, got, delay>>

\* peer.GetRemovalFailed: a plain load of the flag.
GetRemovalFailed ==
    /\ got' = [got EXCEPT !.GetRemovalFailed = removalAttemptFailed]
    /\ UNCHANGED <<lifeVars, connVars, writeDeadline, inbox, cacheVars, sd, rl, rep,
                   onPeerErrorCalls, handlers, histVars, peerConn, cfg,
                   removalAttemptFailed, Data, delay>>

\* peer.Set: p.Data.Set(key, data).
PeerSet(key, data) ==
    /\ Data' = [Data EXCEPT ![key] = data]
    /\ UNCHANGED <<lifeVars, connVars, writeDeadline, inbox, cacheVars, sd, rl, rep,
                   onPeerErrorCalls, handlers, histVars, peerConn, cfg,
                   removalAttemptFailed, got, delay>>

\* peer.Get: p.Data.Get(key).
PeerGet(key) ==
    /\ got' = [got EXCEPT !.Get = Data[key]]
    /\ UNCHANGED <<lifeVars, connVars, writeDeadline, inbox, cacheVars, sd, rl, rep,
                   onPeerErrorCalls, handlers, histVars, peerConn, cfg,
                   removalAttemptFailed, Data, delay>>

OwnerNext ==
    \/ SetRemovalFailed
    \/ GetRemovalFailed
    \/ \E key \in Keys, data \in Values : PeerSet(key, data)
    \/ \E key \in Keys : PeerGet(key)

\* ----------------------------------------------------------- state package
\* A call of CalculateDelay(store, currentBlock).
CallCalculateDelay ==
    /\ ~delay.called
    /\ \E in \in DelayInputs :
          delay' = [called |-> TRUE, in |-> in, out |-> CalculateDelay(in)]
    /\ UNCHANGED <<lifeVars, connVars, writeDeadline, inbox, cacheVars, sd, rl, rep,
                   onPeerErrorCalls, handlers, histVars, peerConn, cfg,
                   removalAttemptFailed, Data, got>>

\* ---------------------------------------------------------------- transport
\* The remote side sends a message on a registered stream of the open
\* connection; the transport holds it until the read loop reads it.
Push(streamID, m) ==
    /\ Alive
    /\ ~connClosed
    /\ RecvBytesUsed + m.n <= MaxRecvBytes
    /\ inbox' = [inbox EXCEPT ![streamID] = Append(@, m)]
    /\ UNCHANGED <<lifeVars, connVars, writeDeadline, cacheVars, sd, rl, rep,
                   onPeerErrorCalls, ownerVars, handlers, histVars>>

PushMsg == \E streamID \in DOMAIN reactorsByStreamID, m \in InMsgs : Push(streamID, m)

\* The remote side sends bytes that do not decode.
PushBad == \E streamID \in DOMAIN reactorsByStreamID : Push(streamID, BadMsg)

\* ---------------------------------------------------------------- read loop
RLTop == [pc |-> "top", cur |-> 0, todo |-> {}, msg |-> NoMsg, exit |-> "-"]
RLExited(why) == [RLTop EXCEPT !.pc = "exited", !.exit = why]
RLRead(streamID, todo) == [RLTop EXCEPT !.pc = "read", !.cur = streamID, !.todo = todo]

\* The next iteration of `for streamID, reactor := range reactorsByStreamID`
\* (Go ranges over a map in no fixed order), or the end of the pass.
NextIter(r) ==
    IF r.todo = {} THEN {RLTop}
    ELSE {RLRead(streamID, r.todo \ {streamID}) : streamID \in r.todo}

\* select { case <-p.Quit(): return; default: start a pass over the streams }
RLSelect ==
    /\ rl.pc = "top"
    /\ IF quit
       THEN rl' = RLExited("quit")
       ELSE rl' \in NextIter([rl EXCEPT !.todo = DOMAIN reactorsByStreamID])
    /\ UNCHANGED <<lifeVars, connVars, writeDeadline, inbox, cacheVars, sd, rep,
                   onPeerErrorCalls, ownerVars, handlers, histVars>>

\* A read that finds nothing waits on its stream for data.
RLReadNoneRetry ==
    /\ rl.pc = "read"
    /\ ~connClosed
    /\ inbox[rl.cur] = <<>>
    /\ rl' = rl
    /\ UNCHANGED <<lifeVars, connVars, writeDeadline, inbox, cacheVars, sd, rep,
                   onPeerErrorCalls, ownerVars, handlers, histVars>>

\* p.peerConn.Read returned (0, nil): continue with the next stream.
RLReadNone ==
    /\ rl.pc = "read"
    /\ ~connClosed
    /\ inbox[rl.cur] = <<>>
    /\ rl' \in NextIter(rl)
    /\ UNCHANGED <<lifeVars, connVars, writeDeadline, inbox, cacheVars, sd, rep,
                   onPeerErrorCalls, ownerVars, handlers, histVars>>

\* What stops the decoding of bytes that are not a message of the stream:
\* proto.Unmarshal into the prototype fails, or the decoded wrapper's Unwrap.
DecodeFailures == {"unmarshal", "unwrap"}

\* Bytes that do not decode are logged and dropped, and the loop goes on
\* with the next stream.
RLReadDataSkipBad ==
    /\ rl.pc = "read"
    /\ ~connClosed
    /\ inbox[rl.cur] # <<>>
    /\ LET m == Head(inbox[rl.cur]) IN
         /\ inbox' = [inbox EXCEPT ![rl.cur] = Tail(@)]
         /\ IF m.ok
            THEN rl' = [rl EXCEPT !.pc = "record", !.msg = [mt |-> m.mt, n |-> m.n]]
            ELSE rl' \in NextIter(rl)
         /\ readLog' = IF m.ok
                       THEN Append(readLog, [streamID |-> rl.cur,
                                             msg |-> [mt |-> m.mt, n |-> m.n]])
                       ELSE readLog
    /\ UNCHANGED <<lifeVars, connVars, writeDeadline, cacheVars, sd, rep,
                   onPeerErrorCalls, ownerVars, handlers, sentTotal, recvTotal, delivered,
                   late, errIn>>

\* p.peerConn.Read returned (n, nil), n > 0; proto.Unmarshal and Unwrap
\* follow: a failure of either panics.
RLReadData ==
    /\ rl.pc = "read"
    /\ ~connClosed
    /\ inbox[rl.cur] # <<>>
    /\ LET m == Head(inbox[rl.cur]) IN
         /\ inbox' = [inbox EXCEPT ![rl.cur] = Tail(@)]
         /\ IF m.ok
            THEN rl' = [rl EXCEPT !.pc = "record", !.msg = [mt |-> m.mt, n |-> m.n]]
            ELSE \E why \in DecodeFailures :
                    rl' = [RLTop EXCEPT !.pc = "panicked", !.exit = why]
         /\ readLog' = IF m.ok
                       THEN Append(readLog, [streamID |-> rl.cur,
                                             msg |-> [mt |-> m.mt, n |-> m.n]])
                       ELSE readLog
    /\ UNCHANGED <<lifeVars, connVars, writeDeadline, cacheVars, sd, rep,
                   onPeerErrorCalls, ownerVars, handlers, sentTotal, recvTotal, delivered,
                   late, errIn>>

\* The read error is logged and the loop goes on with the next stream.
OnReadErrContinue == rl' \in NextIter(rl)

\* if err != nil { p.Logger.Debug(...); p.Stop(); return }: on to p.Stop().
OnReadErr ==
    rl' = [RLTop EXCEPT !.pc = "stop", !.exit = "readerr", !.cur = rl.cur, !.todo = rl.todo]

\* p.peerConn.Read returned an error: the connection is closed, or the
\* transport failed.
RLReadErr ==
    /\ rl.pc = "read"
    /\ errIn' = lifecycle
    /\ OnReadErr
    /\ UNCHANGED <<lifeVars, connVars, writeDeadline, inbox, cacheVars, sd, rep,
                   onPeerErrorCalls, ownerVars, handlers, sentTotal, recvTotal, delivered, late, readLog>>

\* The read loop stops the service itself, without Stop's check of the
\* state the service is in.
RLStopForce ==
    /\ Alive
    /\ rl.pc = "stop"
    /\ lifecycle' = "Stopping"
    /\ stopper' = [by |-> "rl", pc |-> "onstop"]
    /\ rl' = [rl EXCEPT !.pc = "instop"]
    /\ UNCHANGED <<quit, connVars, writeDeadline, inbox, cacheVars, sd, rep,
                   onPeerErrorCalls, ownerVars, handlers, histVars>>

\* p.Stop() called by the read loop, then `return`.  On a service that is
\* not Running Stop returns an error at once.
RLStop ==
    /\ Alive
    /\ rl.pc = "stop"
    /\ IF lifecycle = "Running"
       THEN /\ StopBegin("rl")
            /\ rl' = [rl EXCEPT !.pc = "instop"]
       ELSE /\ rl' = [rl EXCEPT !.pc = "exited"]
            /\ UNCHANGED <<lifecycle, stopper>>
    /\ UNCHANGED <<quit, connVars, writeDeadline, inbox, cacheVars, sd, rep,
                   onPeerErrorCalls, ownerVars, handlers, histVars>>

\* The Envelope is handed over with no received bytes recorded for it.
RLRecordSkip ==
    /\ rl.pc = "record"
    /\ recvTotal' = [recvTotal EXCEPT ![rl.msg.mt] = @ + rl.msg.n]
    /\ rl' = [rl EXCEPT !.pc = "deliver"]
    /\ late' = [late EXCEPT !.recorded = @ + (IF lifecycle = "Stopped" THEN 1 ELSE 0)]
    /\ UNCHANGED <<lifeVars, connVars, writeDeadline, inbox, cacheVars, sd, rep,
                   onPeerErrorCalls, ownerVars, handlers, sentTotal, delivered, errIn, readLog>>

\* p.pendingMetrics.AddPendingRecvBytes(getMsgType(msg), n)
RLRecord ==
    /\ rl.pc = "record"
    /\ mtx = "free"
    /\ pendingMetrics' = AddPendingRecvBytes(rl.msg.mt, rl.msg.n)
    /\ recvTotal' = [recvTotal EXCEPT ![rl.msg.mt] = @ + rl.msg.n]
    /\ rl' = [rl EXCEPT !.pc = "deliver"]
    /\ late' = [late EXCEPT !.recorded = @ + (IF lifecycle = "Stopped" THEN 1 ELSE 0)]
    /\ UNCHANGED <<lifeVars, connVars, writeDeadline, inbox, mtx, metrics, sd, rep,
                   onPeerErrorCalls, ownerVars, handlers, sentTotal, delivered, errIn, readLog>>

\* The Envelope goes to the reactor of some entry of the dispatch table,
\* not to the one of the stream that was read.
RLDeliverAnyReactor ==
    /\ rl.pc = "deliver"
    /\ \E x \in DOMAIN reactorsByStreamID :
          delivered' = Append(delivered, [ChannelID |-> rl.cur, Src |-> "p", Message |-> rl.msg,
                                          reactor |-> reactorsByStreamID[x]])
    /\ late' = [late EXCEPT !.delivered = @ + (IF lifecycle = "Stopped" THEN 1 ELSE 0)]
    /\ rl' = [rl EXCEPT !.pc = "handler"]
    /\ handlers' = handlers + 1
    /\ UNCHANGED <<lifeVars, connVars, writeDeadline, inbox, cacheVars, sd, rep,
                   onPeerErrorCalls, ownerVars, sentTotal, recvTotal, errIn, readLog>>

\* The handler is started asynchronously (go reactor.Receive(...)): its call
\* may overtake the calls made for earlier messages.
RLDeliverOutOfOrder ==
    /\ rl.pc = "deliver"
    /\ \E k \in 0..Len(delivered) :
          delivered' = SubSeq(delivered, 1, k)
                          \o <<[ChannelID |-> rl.cur, Src |-> "p", Message |-> rl.msg,
                                reactor |-> reactorsByStreamID[rl.cur]]>>
                          \o SubSeq(delivered, k + 1, Len(delivered))
    /\ late' = [late EXCEPT !.delivered = @ + (IF lifecycle = "Stopped" THEN 1 ELSE 0)]
    /\ rl' = [rl EXCEPT !.pc = "handler"]
    /\ handlers' = handlers + 1
    /\ UNCHANGED <<lifeVars, connVars, writeDeadline, inbox, cacheVars, sd, rep,
                   onPeerErrorCalls, ownerVars, sentTotal, recvTotal, errIn, readLog>>

\* The handler is started on a goroutine of its own and the loop goes on.
RLDeliverAsync ==
    /\ rl.pc = "deliver"
    /\ delivered' = Append(delivered, [ChannelID |-> rl.cur, Src |-> "p", Message |-> rl.msg,
                                       reactor |-> reactorsByStreamID[rl.cur]])
    /\ late' = [late EXCEPT !.delivered = @ + (IF lifecycle = "Stopped" THEN 1 ELSE 0)]
    /\ rl' \in NextIter(rl)
    /\ handlers' = handlers + 1
    /\ UNCHANGED <<lifeVars, connVars, writeDeadline, inbox, cacheVars, sd, rep,
                   onPeerErrorCalls, ownerVars, sentTotal, recvTotal, errIn, readLog>>

\* reactor.Receive(Envelope{ChannelID: streamID, Src: p, Message: msg}) is
\* called.
RLDeliver ==
    /\ rl.pc = "deliver"
    /\ delivered' = Append(delivered, [ChannelID |-> rl.cur, Src |-> "p", Message |-> rl.msg,
                                       reactor |-> reactorsByStreamID[rl.cur]])
    /\ late' = [late EXCEPT !.delivered = @ + (IF lifecycle = "Stopped" THEN 1 ELSE 0)]
    /\ rl' = [rl EXCEPT !.pc = "handler"]
    /\ handlers' = handlers + 1
    /\ UNCHANGED <<lifeVars, connVars, writeDeadline, inbox, cacheVars, sd, rep,
                   onPeerErrorCalls, ownerVars, sentTotal, recvTotal, errIn, readLog>>

\* reactor.Receive returns.
RLHandlerReturn ==
    /\ rl.pc = "handler"
    /\ handlers' = handlers - 1
    /\ rl' \in NextIter(rl)
    /\ UNCHANGED <<lifeVars, connVars, writeDeadline, inbox, cacheVars, sd, rep,
                   onPeerErrorCalls, ownerVars, histVars>>

ReadLoopNext ==
    RLSelect \/ RLReadNone \/ RLReadData \/ RLReadErr \/ RLStop \/ RLRecord
        \/ RLDeliver \/ RLHandlerReturn

\* --------------------------------------------------------- metrics reporter
\* The reporter is terminated by force wherever it is, a flush included.
RepQuitForced ==
    /\ Alive
    /\ rep.pc \in {"wait", "locked", "sendReset", "recvReset"}
    /\ quit
    /\ rep' = [rep EXCEPT !.pc = "exited"]
    /\ UNCHANGED <<lifeVars, connVars, writeDeadline, inbox, cacheVars, sd, rl,
                   onPeerErrorCalls, ownerVars, handlers, histVars>>

\* case <-p.Quit(): return
RepQuit ==
    /\ Alive
    /\ rep.pc = "wait"
    /\ quit
    /\ rep' = [rep EXCEPT !.pc = "exited"]
    /\ UNCHANGED <<lifeVars, connVars, writeDeadline, inbox, cacheVars, sd, rl,
                   onPeerErrorCalls, ownerVars, handlers, histVars>>

\* Entries of the cache with something to report.  Under the mutex the
\* entries with nothing pending are passed over without any effect, so the
\* loop is modelled as visiting the others, in any order (Go ranges over a
\* map in no fixed order).
HasPending(t) ==
    pendingMetrics[t].pendingSendBytes > 0 \/ pendingMetrics[t].pendingRecvBytes > 0

\* The flush starts without taking the cache mutex.
FlushLockNoMutex ==
    /\ Alive
    /\ rep.pc = "wait"
    /\ rep' = [rep EXCEPT !.pc = "locked", !.todo = MsgTypes]
    /\ UNCHANGED <<lifeVars, connVars, writeDeadline, inbox, cacheVars, sd, rl,
                   onPeerErrorCalls, ownerVars, handlers, histVars>>

\* case <-metricsTicker.C: ... p.pendingMetrics.mtx.Lock()
FlushLock ==
    /\ Alive
    /\ rep.pc = "wait"
    /\ mtx = "free"
    /\ mtx' = "reporter"
    /\ rep' = [rep EXCEPT !.pc = "locked", !.todo = MsgTypes]
    /\ UNCHANGED <<lifeVars, connVars, writeDeadline, inbox, pendingMetrics, metrics, sd, rl,
                   onPeerErrorCalls, ownerVars, handlers, histVars>>

\* if entry.pendingRecvBytes > 0 { MessageReceiveBytesTotal.Add(pendingRecvBytes)
\* as the continuation of the reporter at entry t.
RecvAdd(t, todo) ==
    LET v == pendingMetrics[t].pendingRecvBytes IN
      IF v > 0
      THEN /\ metrics' = [metrics EXCEPT !.MessageReceiveBytesTotal[t] = @ + v]
           /\ rep' = [rep EXCEPT !.pc = "recvReset", !.cur = t, !.todo = todo]
      ELSE /\ metrics' = metrics
           /\ rep' = [rep EXCEPT !.pc = "locked", !.cur = "-", !.todo = todo]

\* The next entry of the range loop:
\* if entry.pendingSendBytes > 0 { MessageSendBytesTotal.Add(pendingSendBytes)
FlushEntry ==
    /\ Alive
    /\ rep.pc = "locked"
    /\ \E t \in rep.todo :
          /\ HasPending(t)
          /\ LET v == pendingMetrics[t].pendingSendBytes IN
               IF v > 0
               THEN /\ metrics' = [metrics EXCEPT !.MessageSendBytesTotal[t] = @ + v]
                    /\ rep' = [rep EXCEPT !.pc = "sendReset", !.cur = t, !.todo = @ \ {t}]
               ELSE RecvAdd(t, rep.todo \ {t})
    /\ UNCHANGED <<lifeVars, connVars, writeDeadline, inbox, pendingMetrics, mtx, sd, rl,
                   onPeerErrorCalls, ownerVars, handlers, histVars>>

\* The pending send bytes are reported and left in the cache.
FlushSendKeep ==
    /\ Alive
    /\ rep.pc = "sendReset"
    /\ RecvAdd(rep.cur, rep.todo)
    /\ UNCHANGED <<lifeVars, connVars, writeDeadline, inbox, pendingMetrics, mtx, sd, rl,
                   onPeerErrorCalls, ownerVars, handlers, histVars>>

\*   entry.pendingSendBytes = 0 }, then the receive half of the entry.
FlushSendReset ==
    /\ Alive
    /\ rep.pc = "sendReset"
    /\ pendingMetrics' = [pendingMetrics EXCEPT ![rep.cur].pendingSendBytes = 0]
    /\ RecvAdd(rep.cur, rep.todo)
    /\ UNCHANGED <<lifeVars, connVars, writeDeadline, inbox, mtx, sd, rl,
                   onPeerErrorCalls, ownerVars, handlers, histVars>>

\* The pending receive bytes are reported and left in the cache.
FlushRecvKeep ==
    /\ Alive
    /\ rep.pc = "recvReset"
    /\ rep' = [rep EXCEPT !.pc = "locked", !.cur = "-"]
    /\ UNCHANGED <<lifeVars, connVars, writeDeadline, inbox, pendingMetrics, mtx, metrics,
                   sd, rl, onPeerErrorCalls, ownerVars, handlers, histVars>>

\*   entry.pendingRecvBytes = 0 }
FlushRecvReset ==
    /\ Alive
    /\ rep.pc = "recvReset"
    /\ pendingMetrics' = [pendingMetrics EXCEPT ![rep.cur].pendingRecvBytes = 0]
    /\ rep' = [rep EXCEPT !.pc = "locked", !.cur = "-"]
    /\ UNCHANGED <<lifeVars, connVars, writeDeadline, inbox, mtx, metrics, sd, rl,
                   onPeerErrorCalls, ownerVars, handlers, histVars>>

\* The range loop is over: the deferred p.pendingMetrics.mtx.Unlock().
FlushUnlock ==
    /\ Alive
    /\ rep.pc = "locked"
    /\ \A t \in rep.todo : ~HasPending(t)
    /\ mtx' = "free"
    /\ rep' = [rep EXCEPT !.pc = "wait", !.cur = "-", !.todo = {}]
    /\ UNCHANGED <<lifeVars, connVars, writeDeadline, inbox, pendingMetrics, metrics, sd, rl,
                   onPeerErrorCalls, ownerVars, handlers, histVars>>

ReporterFlush ==
    FlushLock \/ FlushEntry \/ FlushSendReset \/ FlushRecvReset \/ FlushUnlock

ReporterNext == RepQuit \/ ReporterFlush

\* ----------------------------------------------------------- specifications
\* The whole peer.
Next == LifeNext \/ SendNext \/ ReadLoopNext \/ ReporterNext \/ PushMsg \/ PushBad

Spec == Init /\ [][Next]_vars

\* The send side: callers of Send/TrySend, the lifecycle and the reporter,
\* while the read loop has nothing to read.
NextSend ==
    LifeNext \/ SendNext \/ RepQuit \/ FlushLock \/ FlushEntry \/ FlushSendReset
        \/ FlushUnlock

SpecSend == Init /\ [][NextSend]_vars

\* The receive side: the remote side, the read loop, the lifecycle and the
\* reporter, while nobody sends.
NextRecv ==
    LifeNext \/ ReadLoopNext \/ RepQuit \/ FlushLock \/ FlushEntry \/ FlushRecvReset
        \/ FlushUnlock \/ PushMsg \/ PushBad

SpecRecv == Init /\ [][NextRecv]_vars

\* A running peer under load: callers whose sends succeed, the read loop
\* working on what the remote side sent, and the reporter, with no stop and
\* no transport failure.
ConcSend ==
    \E s \in Senders, m \in OutMsgs : m.enc /\ SendCall(s, "10s", 1, m)

NextConc ==
    \/ ConcSend
    \/ \E s \in Senders : SendWrite(s) /\ sd'[s].pc = "add"
    \/ \E s \in Senders : SendAdd(s)
    \/ \E s \in Senders : SendReturn(s)
    \/ RLSelect \/ RLReadNone \/ RLReadData \/ RLRecord \/ RLDeliver \/ RLHandlerReturn
    \/ ReporterFlush

SpecConc == InitRunning /\ [][NextConc]_vars

\* The receive side with well-formed traffic, under the scheduling the Go
\* runtime and the transport give: a goroutine that can take a step takes
\* it (Stop runs to its end, the read loop goes on, handlers return), and a
\* read on a closed connection returns.  A read on an open connection may
\* block for ever.  The reporter is left out: it holds the cache mutex for
\* one pass over the entries only, so the read loop's wait for it ends.
NextLive == LifeNext \/ ReadLoopNext \/ PushMsg

LiveFairness ==
    /\ WF_vars(OnStop)
    /\ WF_vars(StopEnd)
    /\ WF_vars(RLSelect)
    /\ WF_vars(connClosed /\ RLReadErr)
    /\ WF_vars(RLStop)
    /\ WF_vars(RLRecord)
    /\ WF_vars(RLDeliver)
    /\ WF_vars(RLHandlerReturn)

SpecLive == Init /\ [][NextLive]_vars /\ LiveFairness

\* As SpecLive, with FlushStop called on a Running peer only.
FlushStopRunning == IsRunning /\ FlushStop

NextFlush ==
    Start \/ Stop \/ OnStop \/ StopEnd \/ FlushStopRunning \/ ReadLoopNext \/ PushMsg

SpecFlush == Init /\ [][NextFlush]_vars /\ LiveFairness

\* wrapPeer called with any configuration, then the owner's calls on the
\* peer it returned.
InitWrap == PeerState("Created", "off", EmptyInbox) /\ \E c \in Configs : Wrapped(c)

NextWrap == LifeNext \/ OwnerNext

SpecWrap == InitWrap /\ [][NextWrap]_vars

\* Every operation of the peer next to the peer set's calls on the flag: the
\* lifecycle, a caller of Send and TrySend with a message of the longest
\* encoding, the read loop with one such message waiting on stream 1 since
\* before the peer was made, the reporter, and Get/Set on the user data.
InitOwner ==
    /\ PeerState("Created", "off",
                 [EmptyInbox EXCEPT ![1] = <<[mt |-> "A", n |-> MaxMsgLen, ok |-> TRUE]>>])
    /\ Wrapped(DialCfg)

OwnerSend ==
    \E dur \in {"10s", "100ms"} :
        SendCall(1, dur, 1, [mt |-> "A", len |-> MaxMsgLen, enc |-> TRUE])

NextOwner ==
    \/ LifeNext
    \/ SetRemovalFailed \/ GetRemovalFailed \/ PeerSet("k", "v1") \/ PeerGet("k")
    \/ OwnerSend \/ SendWrite(1) \/ SendAdd(1) \/ SendReturn(1)
    \/ ReadLoopNext
    \/ ReporterNext

SpecOwner == InitOwner /\ [][NextOwner]_vars

\* The read loop of a peer that stays Running, polling a transport whose
\* reads return at once (with nothing when nothing waits) and do not fail,
\* with handlers that return, while the remote side goes on sending.
NextPoll ==
    RLSelect \/ RLReadNone \/ RLReadData \/ RLRecord \/ RLDeliver \/ RLHandlerReturn
        \/ PushMsg

PollFairness ==
    /\ WF_vars(RLSelect)
    /\ WF_vars(RLReadNone)
    /\ WF_vars(RLReadData)
    /\ WF_vars(RLRecord)
    /\ WF_vars(RLDeliver)
    /\ WF_vars(RLHandlerReturn)

SpecPoll == InitRunning /\ [][NextPoll]_vars /\ PollFairness

\* The reporter next to the lifecycle and the read loop, with messages of
\* one type arriving on stream 1.  Scheduling: a goroutine that can take a
\* step takes it; the reporter's select, which picks at random among the
\* cases that are ready, picks the quit case in the end when it is ready
\* every time the select is reached.
PushRep == \E n \in 1..MaxMsgLen : Push(1, [mt |-> "A", n |-> n, ok |-> TRUE])

NextRep ==
    Start \/ Stop \/ OnStop \/ StopEnd \/ ReadLoopNext \/ PushRep
        \/ RepQuit \/ FlushLock \/ FlushEntry \/ FlushRecvReset \/ FlushUnlock

RepFairness ==
    /\ WF_vars(OnStop)
    /\ WF_vars(StopEnd)
    /\ SF_vars(RepQuit)
    /\ WF_vars(FlushEntry)
    /\ WF_vars(FlushRecvReset)
    /\ WF_vars(FlushUnlock)

SpecRep == Init /\ [][NextRep]_vars /\ RepFairness

\* A Running peer with two callers at once: goroutine 1 calls Send and
\* goroutine 2 calls TrySend, on stream 1.
OwnDeadline == (1 :> "10s") @@ (2 :> "100ms")

DeadlineSend == \E m \in OutMsgs : m.enc /\ SendCall(1, OwnDeadline[1], 1, m)

DeadlineTrySend == \E m \in OutMsgs : m.enc /\ SendCall(2, OwnDeadline[2], 1, m)

NextDeadline ==
    \/ DeadlineSend
    \/ DeadlineTrySend
    \/ \E s \in Senders : SendWrite(s)
    \/ \E s \in Senders : SendAdd(s)
    \/ \E s \in Senders : SendReturn(s)

SpecDeadline == InitRunning /\ [][NextDeadline]_vars

\* CalculateDelay called once, with any inputs.
NextDelay == CallCalculateDelay

SpecDelay == Init /\ [][NextDelay]_vars

\* ------------------------------------------------------------------ claims
\* The stream IDs the remote node reported (nodeInfo.Channels as a set).
ChannelSet == {channels[i] : i \in DOMAIN channels}

AtRet(s) == sd[s].pc = "ret"

SendConserved(t) ==
    metrics.MessageSendBytesTotal[t] + pendingMetrics[t].pendingSendBytes = sentTotal[t]

RecvConserved(t) ==
    metrics.MessageReceiveBytesTotal[t] + pendingMetrics[t].pendingRecvBytes = recvTotal[t]

\* C1: a Send or TrySend call made while the peer is not Running returns
\* false at once and changes nothing: no transport write, no change of the
\* transport's state (its write deadline included), no change of the cache.
C1_NotRunningSendNoEffect ==
    [][\A s \in Senders :
         (sd[s].pc = "idle" /\ sd'[s].pc # "idle" /\ ~IsRunning)
            => /\ sd'[s].pc = "ret" /\ ~sd'[s].res /\ sd'[s].wr = 0
               /\ writeDeadline' = writeDeadline
               /\ connClosed' = connClosed
               /\ pendingMetrics' = pendingMetrics]_vars

\* C2: for a stream ID that is not among the reported channels HasChannel is
\* false, and a Send/TrySend on it returns false without a transport write
\* and without a change of the cache, whatever the lifecycle state and also
\* when the dispatch table has the stream.
C2_UnknownStreamRejected ==
    /\ \A chID \in 0..4 : chID \notin ChannelSet => ~HasChannel(chID)
    /\ \A s \in Senders :
          sd[s].streamID \notin ChannelSet
             => /\ sd[s].pc \in {"idle", "ret"}
                /\ ~sd[s].res /\ sd[s].wr = 0 /\ sd[s].added = 0

\* A call on stream 3, which the dispatch table has and the channel list has
\* not, has returned on a running peer.
C2_Witness ==
    \E s \in Senders :
        /\ AtRet(s) /\ sd[s].run /\ sd[s].streamID = 3
        /\ 3 \in DOMAIN reactorsByStreamID

\* C3: send byte accounting is exact.  Pending counters are never negative;
\* for every message type the cumulative sent counter plus the pending send
\* bytes is the total encoded length of the sends that returned true, except
\* inside the reporter's critical section between its adding an entry to the
\* counter and its resetting the entry, where the counter alone is that total;
\* an entry the flush has passed is zero until the mutex is released.
C3_SendAccountingExact ==
    \A t \in MsgTypes :
        /\ pendingMetrics[t].pendingSendBytes >= 0
        /\ pendingMetrics[t].pendingRecvBytes >= 0
        /\ IF rep.pc = "sendReset" /\ rep.cur = t
           THEN metrics.MessageSendBytesTotal[t] = sentTotal[t]
           ELSE SendConserved(t)
        /\ (rep.pc \in {"locked", "recvReset"} /\ t \notin rep.todo)
              => pendingMetrics[t].pendingSendBytes = 0

\* Bytes of one type both already reported and pending again.
C3_Witness ==
    \E t \in MsgTypes :
        /\ metrics.MessageSendBytesTotal[t] > 0
        /\ pendingMetrics[t].pendingSendBytes > 0

\* C4: no lost update.  Whenever no flush is in progress, every byte count
\* recorded by a sender or by the read loop is in exactly one of the pending
\* entry and the cumulative counter of its message type.
C4_NoLostUpdate ==
    rep.pc = "wait" => \A t \in MsgTypes : SendConserved(t) /\ RecvConserved(t)

\* Two senders with messages of different types and the read loop all wait
\* to add to the cache while the reporter holds the mutex.
C4_Witness ==
    /\ sd[1].pc = "add" /\ sd[2].pc = "add" /\ sd[1].mt # sd[2].mt
    /\ rl.pc = "record"
    /\ mtx = "reporter"

\* C5: a call on a running peer whose message cannot be encoded, or whose
\* transport write fails or comes back short, returns false and adds nothing
\* to the cache; no call makes more than one transport write (none when the
\* encoding fails); no step of a sender changes the lifecycle state.
C5_FailedSend ==
    /\ [](\A s \in Senders :
            /\ sd[s].wr <= 1
            /\ (AtRet(s) /\ sd[s].run /\ (~sd[s].enc \/ sd[s].out \in {"err", "short"}))
                  => (~sd[s].res /\ sd[s].added = 0)
            /\ (sd[s].pc # "idle" /\ ~sd[s].enc) => sd[s].wr = 0)
    /\ [][\A s \in Senders :
            sd'[s] # sd[s] => (lifecycle' = lifecycle /\ (~AtRet(s)' \/ sd'[s].res
                                  \/ pendingMetrics' = pendingMetrics))]_vars

\* A write came back short on a peer that is still Running.
C5_Witness ==
    \E s \in Senders : AtRet(s) /\ sd[s].out = "short" /\ IsRunning

\* C6: before Start the peer is Created and the read loop does not run: no
\* transport read, no received bytes recorded, no Envelope delivered.
C6_NoReadBeforeStart ==
    lifecycle = "Created"
       => /\ rl.pc = "top"
          /\ delivered = <<>>
          /\ \A t \in MsgTypes : recvTotal[t] = 0

\* C7: once the lifecycle state is Stopped no Envelope is delivered and no
\* received bytes are recorded.
C7_NothingAfterStopped == late.delivered = 0 /\ late.recorded = 0

\* C7 amended: once the lifecycle state is Stopped the connection is closed
\* and no message is read from the transport any more; the read loop records
\* and delivers at most the one message whose read had already returned.
C7_AtMostOneAfterStopped ==
    /\ [](late.delivered <= 1 /\ late.recorded <= 1)
    /\ [][lifecycle = "Stopped" => ~(rl.pc = "read" /\ rl'.pc \in {"record", "panicked"})]_vars

\* A message was delivered after Stop had returned.
C7_Witness == late.delivered = 1 /\ stopper.by = "ext"

\* C8: Stop called while the read loop is in a transport read: the
\* connection is closed, the read returns, the read loop exits and the peer
\* reaches Stopped.
C8_StopUnblocksRead ==
    (stopper.by = "ext" /\ stopper.pc = "onstop" /\ rl.pc = "read")
        ~> (connClosed /\ lifecycle = "Stopped" /\ rl.pc = "exited")

\* The read loop left through the read error after the owner's Stop closed
\* a connection nothing else had closed.
C8_Witness ==
    /\ stopper.by = "ext" /\ lifecycle = "Stopped"
    /\ closes.FlushAndClose = 0
    /\ errIn \in {"Stopping", "Stopped"}
    /\ rl.pc = "exited" /\ rl.exit = "readerr"

\* C9: after a transport read failed on a Running peer the read loop makes
\* no further read and no delivery: it calls Stop and exits, and when it has
\* exited the peer is no longer Running (Stopped when the read loop's own
\* Stop did it, Stopping or Stopped when another Stop was under way); from
\* the failed read on, nothing is delivered, and the peer reaches Stopped
\* with the read loop gone.
C9_ReadErrorStopsPeer ==
    /\ [](errIn = "Running"
            => /\ rl.pc \in {"stop", "instop", "exited"}
               /\ rl.pc = "exited" => lifecycle \in {"Stopping", "Stopped"}
               /\ (rl.pc = "exited" /\ stopper.by = "rl")
                     => (lifecycle = "Stopped" /\ connClosed))
    /\ [][errIn' = "Running" => delivered' = delivered]_vars
    /\ (errIn = "Running") ~> (lifecycle = "Stopped" /\ rl.pc = "exited")

\* The read on the first stream of a pass failed on a Running peer; the
\* loop has stopped the peer and exited with a stream left unread.
C9_Witness ==
    /\ errIn = "Running" /\ rl.pc = "exited" /\ rl.todo # {}
    /\ stopper.by = "rl" /\ lifecycle = "Stopped"

\* C10: when a transport read error has stopped the peer, the onPeerError
\* callback has been invoked.
C10_ErrorCallbackInvoked ==
    (errIn = "Running" /\ rl.pc = "exited" /\ stopper.by = "rl" /\ lifecycle = "Stopped")
        => onPeerErrorCalls >= 1

\* C11: after FlushStop has been called on a Running peer the connection is
\* closed and the peer reaches Stopped (where Send and TrySend return false).
\* Under SpecFlush the transport has had a FlushAndClose exactly when
\* FlushStop was called on the Running peer.
C11_FlushStopStops ==
    /\ [](closes.FlushAndClose = 1 => connClosed)
    /\ (closes.FlushAndClose = 1) ~> (lifecycle = "Stopped")

\* C12: Stopped is terminal: no step of the owner, of a sender, of the read
\* loop or of the reporter takes the lifecycle state out of Stopped.
C12_StoppedIsTerminal == [][lifecycle = "Stopped" => lifecycle' = "Stopped"]_vars

\* The read loop's read failed on the Stopped peer and its p.Stop() has
\* returned.
C12_Witness ==
    lifecycle = "Stopped" /\ errIn = "Stopped" /\ rl.pc = "exited" /\ rl.exit = "readerr"

\* Reads of message m on stream streamID, deliveries of it, and the read of
\* it that has returned and whose receive call has not been made yet.
Reads(streamID, m) ==
    Cardinality({i \in DOMAIN readLog : readLog[i] = [streamID |-> streamID, msg |-> m]})

Deliveries(streamID, m) ==
    Cardinality({i \in DOMAIN delivered :
                    delivered[i].ChannelID = streamID /\ delivered[i].Message = m})

ReadInHand(streamID, m) ==
    IF rl.pc \in {"record", "deliver"} /\ rl.cur = streamID /\ rl.msg = m THEN 1 ELSE 0

\* C13: every read that decoded to message M on stream S has exactly one
\* receive call, made on the handler the dispatch table has for S, with
\* Envelope{ChannelID: S, Src: this peer, Message: M}: at any time the
\* deliveries of (S, M) are its reads, less the one read whose receive call
\* is about to be made.
C13_OneDeliveryPerRead ==
    /\ \A streamID \in DOMAIN reactorsByStreamID, m \in [mt : MsgTypes, n : 1..MaxMsgLen] :
          Deliveries(streamID, m) = Reads(streamID, m) - ReadInHand(streamID, m)
    /\ Len(delivered) = Len(readLog) - (IF rl.pc \in {"record", "deliver"} THEN 1 ELSE 0)
    /\ \A i \in DOMAIN delivered :
          /\ delivered[i].reactor = reactorsByStreamID[delivered[i].ChannelID]
          /\ delivered[i].Src = "p"

\* Two messages read on two streams have both been delivered.
C13_Witness ==
    /\ Len(delivered) = 2 /\ Len(readLog) = 2
    /\ delivered[1].ChannelID # delivered[2].ChannelID

\* The messages read on a stream, and those delivered for it, in order.
ReadOn(streamID) ==
    LET q == SelectSeq(readLog, LAMBDA e : e.streamID = streamID)
    IN [i \in 1..Len(q) |-> q[i].msg]

DeliveredOn(streamID) ==
    LET q == SelectSeq(delivered, LAMBDA e : e.ChannelID = streamID)
    IN [i \in 1..Len(q) |-> q[i].Message]

IsPrefix(a, b) == Len(a) <= Len(b) /\ SubSeq(b, 1, Len(a)) = a

\* C14: the messages of one stream are delivered in the order in which they
\* were read: for every stream the sequence delivered is a prefix of the
\* sequence read.  Nothing is said across streams.
C14_PerStreamOrder ==
    \A streamID \in DOMAIN reactorsByStreamID :
        IsPrefix(DeliveredOn(streamID), ReadOn(streamID))

\* Two different messages of one stream have been delivered.
C14_Witness ==
    \E streamID \in DOMAIN reactorsByStreamID :
        /\ Len(DeliveredOn(streamID)) = 2
        /\ DeliveredOn(streamID)[1] # DeliveredOn(streamID)[2]

\* C15: IsOutbound is the configured flag.  IsPersistent is false without a
\* predicate; for an outbound peer it is the predicate at the socket address;
\* for an inbound peer it is the predicate at the self-reported address when
\* ni.NetAddr() gives one and false when it fails.  Neither changes after
\* construction.
C15_PersistenceDecision ==
    /\ [](/\ IsOutbound = cfg.outbound
          /\ ~cfg.isPersistent.set => ~IsPersistent
          /\ (cfg.isPersistent.set /\ cfg.outbound)
                => (IsPersistent <=> cfg.socketAddr \in cfg.isPersistent.yes)
          /\ (cfg.isPersistent.set /\ ~cfg.outbound /\ ~cfg.netAddr.err)
                => (IsPersistent <=> cfg.netAddr.addr \in cfg.isPersistent.yes)
          /\ (cfg.isPersistent.set /\ ~cfg.outbound /\ cfg.netAddr.err)
                => ~IsPersistent)
    /\ [][peerConn' = peerConn]_vars

\* An inbound peer whose socket address the predicate holds persistent and
\* whose self-reported address could not be retrieved, after it was stopped.
C15_Witness ==
    /\ ~cfg.outbound /\ cfg.isPersistent.set /\ cfg.netAddr.err
    /\ cfg.socketAddr \in cfg.isPersistent.yes
    /\ lifecycle = "Stopped" /\ removalAttemptFailed

NothingPending == \A t \in MsgTypes : ~HasPending(t)

\* C16: the drain is idempotent.  When a flush ends every pending entry is
\* zero; and no step of a flush made with nothing pending adds to a
\* cumulative counter or changes the cache.
C16_DrainIdempotent ==
    /\ [][(rep.pc = "locked" /\ rep'.pc = "wait") => NothingPending']_vars
    /\ [][(rep' # rep /\ NothingPending)
            => (metrics' = metrics /\ pendingMetrics' = pendingMetrics)]_vars

\* After a flush that reported sent and received bytes, the next flush has
\* taken the mutex with nothing pending.
C16_Witness ==
    /\ rep.pc = "locked" /\ rep.todo = MsgTypes /\ NothingPending
    /\ \E t \in MsgTypes : metrics.MessageSendBytesTotal[t] > 0
    /\ \E t \in MsgTypes : metrics.MessageReceiveBytesTotal[t] > 0

\* C17: the RemovalFailed flag is false at construction; no step of the
\* lifecycle, of a sender, of the read loop, of the reporter or of Get/Set
\* changes it; once set it stays set, and from then on GetRemovalFailed
\* returns true (and it returns true only when the flag was set).
C17_RemovalFailedFrame ==
    /\ ~removalAttemptFailed
    /\ [][(lifeVars' # lifeVars \/ connVars' # connVars \/ sd' # sd \/ rl' # rl
             \/ rep' # rep \/ cacheVars' # cacheVars \/ Data' # Data \/ got.Get' # got.Get)
            => removalAttemptFailed' = removalAttemptFailed]_vars
    /\ [][removalAttemptFailed => removalAttemptFailed']_vars
    /\ [][(removalAttemptFailed /\ got' # got /\ got'.Get = got.Get)
            => got'.GetRemovalFailed]_vars
    /\ [](got.GetRemovalFailed => removalAttemptFailed)

\* The flag was set and read back on a peer that has sent, received, stored
\* user data and been stopped after a FlushStop.
C17_Witness ==
    /\ removalAttemptFailed /\ got.GetRemovalFailed
    /\ lifecycle = "Stopped" /\ closes.FlushAndClose = 1
    /\ Len(delivered) >= 1 /\ sentTotal["A"] > 0
    /\ Data["k"] = "v1" /\ got.Get = "v1"

\* C18: CalculateDelay returns 0 when loading the state or the consensus
\* params fails or the genesis time is zero.  Otherwise, with
\* ideal = blockTime - blockTime/10, threshold = ideal/5 and
\* diff = (time - genesis) - blockTime*(height-1): ideal - diff when
\* |diff| <= threshold, ideal - threshold when diff > threshold,
\* ideal + threshold when diff < -threshold; the result is in
\* [ideal - threshold, ideal + threshold].
C18_CalculateDelay ==
    delay.called =>
        LET in == delay.in
            ideal == in.blockTime - (in.blockTime \div 10)
            threshold == ideal \div 5
            diff == (in.time - in.genesisTime) - in.blockTime * (in.height - 1)
        IN IF in.loadErr \/ in.paramsErr \/ in.genesisTime = 0
           THEN delay.out = 0
           ELSE /\ (diff <= threshold /\ -diff <= threshold) => delay.out = ideal - diff
                /\ diff > threshold => delay.out = ideal - threshold
                /\ diff < -threshold => delay.out = ideal + threshold
                /\ delay.out >= ideal - threshold
                /\ delay.out <= ideal + threshold

\* The block came early by more than a nonzero threshold.
C18_Witness ==
    /\ delay.called
    /\ ~delay.in.loadErr /\ ~delay.in.paramsErr /\ delay.in.genesisTime > 0
    /\ delay.in.blockTime = 20 /\ delay.in.height = 3 /\ delay.in.time - delay.in.genesisTime = 30
    /\ delay.out = 21

\* C19: handlers are called synchronously by the read loop: at most one
\* receive call is in progress, the loop is in no transport read while one
\* is, and while one is nothing is taken from the transport.
C19_SynchronousHandler ==
    /\ [](handlers <= 1 /\ (rl.pc \in {"read", "record", "deliver"} => handlers = 0))
    /\ [][handlers > 0
            => /\ readLog' = readLog
               /\ \A streamID \in DOMAIN inbox : Len(inbox'[streamID]) >= Len(inbox[streamID])]_vars

\* A handler call is in progress on the Running peer while a message waits
\* on the connection.
C19_Witness ==
    /\ handlers = 1 /\ rl.pc = "handler" /\ IsRunning
    /\ \E streamID \in DOMAIN inbox : inbox[streamID] # <<>>

\* C20: a read that returns zero bytes delivers and records nothing and the
\* loop goes on with a stream of the pass not yet polled (or the pass is
\* over); a pass polls no stream twice and ends only when every stream was
\* polled; and a stream with data waiting gets a further message delivered,
\* whatever arrives on the other streams.
C20_PollEveryStream ==
    /\ [][(rl.pc = "read" /\ inbox[rl.cur] = <<>> /\ rl' # rl)
            => /\ delivered' = delivered
               /\ recvTotal' = recvTotal
               /\ pendingMetrics' = pendingMetrics
               /\ IF rl.todo = {}
                  THEN rl'.pc = "top"
                  ELSE /\ rl'.pc = "read"
                       /\ rl'.cur \in rl.todo
                       /\ rl'.todo = rl.todo \ {rl'.cur}]_vars
    /\ [](rl.pc \in {"read", "record", "deliver", "handler"} => rl.cur \notin rl.todo)
    /\ [][(rl.pc # "top" /\ rl'.pc = "top") => rl.todo = {}]_vars
    /\ \A streamID \in DOMAIN reactorsByStreamID : \A k \in 0..MaxRecvBytes :
          (inbox[streamID] # <<>> /\ Len(DeliveredOn(streamID)) = k)
              ~> (Len(DeliveredOn(streamID)) > k)

\* A read is about to return zero bytes while a stream still to be polled
\* in this pass has a message waiting.
C20_Witness ==
    /\ rl.pc = "read" /\ inbox[rl.cur] = <<>>
    /\ \E streamID \in rl.todo : inbox[streamID] # <<>>

\* Bytes of the messages of type t among the Envelopes in q.
RECURSIVE BytesOf(_, _)
BytesOf(q, t) ==
    IF q = <<>> THEN 0
    ELSE (IF Head(q).Message.mt = t THEN Head(q).Message.n ELSE 0) + BytesOf(Tail(q), t)

\* Bytes of the messages of type t whose delivery has started: those handed
\* to a handler, and the one recorded whose receive call comes next.
StartedBytes(t) ==
    BytesOf(delivered, t) + (IF rl.pc = "deliver" /\ rl.msg.mt = t THEN rl.msg.n ELSE 0)

\* C21: the bytes read for a message are added to pendingRecvBytes of its
\* type once, before the handler's receive is invoked: the step after the
\* decoding adds n to the entry of the message's type and nothing else, the
\* receive call is made on that message and adds nothing; so for every type
\* the cumulative received counter plus the pending received bytes is the
\* total of the messages whose delivery has started (inside the reporter's
\* critical section, between its adding an entry and its resetting it, the
\* counter alone is that total).
C21_RecvRecordedBeforeDelivery ==
    /\ [](\A t \in MsgTypes :
            IF rep.pc = "recvReset" /\ rep.cur = t
            THEN metrics.MessageReceiveBytesTotal[t] = StartedBytes(t)
            ELSE metrics.MessageReceiveBytesTotal[t] + pendingMetrics[t].pendingRecvBytes
                    = StartedBytes(t))
    /\ [][(rl.pc = "record" /\ rl'.pc # "record")
            => /\ rl'.pc = "deliver" /\ rl'.msg = rl.msg
               /\ \A t \in MsgTypes :
                     /\ pendingMetrics'[t].pendingRecvBytes
                           = pendingMetrics[t].pendingRecvBytes
                               + (IF t = rl.msg.mt THEN rl.msg.n ELSE 0)
                     /\ pendingMetrics'[t].pendingSendBytes
                           = pendingMetrics[t].pendingSendBytes]_vars
    /\ [][delivered' # delivered
            => /\ rl.pc = "deliver"
               /\ delivered' = Append(delivered, delivered'[Len(delivered')])
               /\ delivered'[Len(delivered')].Message = rl.msg
               /\ pendingMetrics' = pendingMetrics]_vars

\* A second message of a type is with its handler, its bytes pending, after
\* the bytes of the first were reported.
C21_Witness ==
    /\ rl.pc = "handler" /\ Len(delivered) = 2
    /\ delivered[1].Message.mt = delivered[2].Message.mt
    /\ metrics.MessageReceiveBytesTotal[rl.msg.mt] = delivered[1].Message.n
    /\ pendingMetrics[rl.msg.mt].pendingRecvBytes = delivered[2].Message.n

\* The read loop's read takes bytes from its stream that do not decode.
BadRead ==
    /\ rl.pc = "read" /\ inbox[rl.cur] # <<>> /\ ~Head(inbox[rl.cur]).ok
    /\ inbox'[rl.cur] = Tail(inbox[rl.cur])

\* C22: a read whose bytes fail to decode or to unwrap makes the read loop
\* panic: that step delivers nothing and records nothing, and from then on
\* the loop takes nothing from the transport, records nothing and delivers
\* nothing.  The loop panics on such a read only.
C22_DecodeFailureFatal ==
    /\ [][BadRead
            => /\ rl'.pc = "panicked" /\ rl'.exit \in DecodeFailures
               /\ delivered' = delivered /\ readLog' = readLog
               /\ pendingMetrics' = pendingMetrics /\ metrics' = metrics
               /\ handlers' = handlers]_vars
    /\ [][rl.pc = "panicked"
            => /\ rl' = rl /\ inbox' = inbox
               /\ delivered' = delivered /\ readLog' = readLog
               /\ pendingMetrics' = pendingMetrics /\ metrics' = metrics]_vars
    /\ [][(rl.pc # "panicked" /\ rl'.pc = "panicked") => BadRead]_vars

\* The loop has panicked on a wrapper that does not unwrap, with a
\* well-formed message waiting on another stream of the pass.
C22_Witness ==
    /\ rl.pc = "panicked" /\ rl.exit = "unwrap"
    /\ \E streamID \in DOMAIN inbox : inbox[streamID] # <<>> /\ Head(inbox[streamID]).ok

\* The reporter is launched by Start and by nothing else.
LaunchedByStart ==
    /\ [](lifecycle = "Created" => rep.pc = "off")
    /\ [][(rep.pc = "off" /\ rep'.pc # "off")
            => (lifecycle = "Created" /\ lifecycle' = "Running" /\ rep'.pc = "wait")]_vars

\* The reporter exits between flushes only, and a flush ends with every
\* entry read and reset and the mutex released.
FlushCompletes ==
    /\ [][(rep.pc # "exited" /\ rep'.pc = "exited")
            => (rep.pc = "wait" /\ quit /\ mtx = "free")]_vars
    /\ [][(rep.pc \in {"locked", "sendReset", "recvReset"} /\ rep'.pc = "wait")
            => (NothingPending' /\ mtx' = "free")]_vars

\* C23: the reporter is launched by Start; after the cancellation signal has
\* fired it terminates, and it begins no flush after the signal; a flush that
\* has started completes before the reporter exits.
C23_ReporterOnlyWhileRunning ==
    /\ LaunchedByStart
    /\ [][quit => ~(rep.pc = "wait" /\ rep'.pc = "locked")]_vars
    /\ quit ~> (rep.pc = "exited")
    /\ FlushCompletes

\* C23 amended: the reporter is launched by Start; after the cancellation
\* signal has fired it terminates, and once it has terminated it makes no
\* flush (until then its select may still take a tick that is ready and
\* flush); a flush that has started completes before the reporter exits.
C23_ReporterCooperative ==
    /\ LaunchedByStart
    /\ quit ~> (rep.pc = "exited")
    /\ [][rep.pc = "exited"
            => (rep' = rep /\ metrics' = metrics /\ mtx' = mtx
                  /\ \A t \in MsgTypes : pendingMetrics'[t].pendingRecvBytes
                                             >= pendingMetrics[t].pendingRecvBytes)]_vars
    /\ FlushCompletes

\* The reporter has exited after a flush that it began when the peer was
\* Stopped already and that reported received bytes.
C23_Witness ==
    /\ rep.pc = "exited" /\ lifecycle = "Stopped"
    /\ late.recorded = 1
    /\ metrics.MessageReceiveBytesTotal["A"] = recvTotal["A"]
    /\ recvTotal["A"] > 0

\* C24: with a Send (goroutine 1) and a TrySend (goroutine 2) running
\* concurrently, the transport write of each call is made under the write
\* deadline that call set: 10 seconds for Send, 100 milliseconds for
\* TrySend.
C24_OwnWriteDeadline ==
    [][\A s \in Senders :
         (sd[s].pc = "write" /\ sd'[s].pc # "write")
            => (writeDeadline.dur = OwnDeadline[s] /\ writeDeadline.by = s)]_vars

\* C25: the transport is closed at most once: over Stop, one FlushStop and
\* the read loop's read errors, the closing calls made on the transport
\* (Close and FlushAndClose together) are at most one, and none is made on
\* a connection that is closed already.
C25_ClosedAtMostOnce ==
    /\ [](closes.Close + closes.FlushAndClose <= 1)
    /\ [][closes' # closes => ~connClosed]_vars

====
